---- MODULE Spec2Model ----
(***************************************************************************)
(* A model of package gpio (src/gpio.go): the lazily initialised pin       *)
(* registry (aliases, pins), its discovery walk over the hardware          *)
(* description tree, NewPin and Pin.Export against the sysfs gpio files.   *)
(*                                                                         *)
(* Go strings are sequences of one-character strings.  A Go int is the     *)
(* 64-bit two's complement integer of the usual builds, held as four       *)
(* 16-bit limbs, least significant first, so that strconv.Atoi's range     *)
(* clamp and the wrap of an addition are computed, not assumed.            *)
(***************************************************************************)
EXTENDS Integers, Sequences, FiniteSets, TLC

\* ------------------------------------------------------------------------
\* Strings
\* ------------------------------------------------------------------------

Digits == <<"0", "1", "2", "3", "4", "5", "6", "7", "8", "9">>

IsDigit(c) == \E i \in 1..Len(Digits) : Digits[i] = c

DigitVal(c) == (CHOOSE i \in 1..Len(Digits) : Digits[i] = c) - 1

\* strings.Split(s, sep) for a one-character separator: k separators give
\* k+1 parts, empty parts kept.
RECURSIVE SplitFrom(_, _, _, _)
SplitFrom(s, sep, i, cur) ==
    IF i > Len(s) THEN <<cur>>
    ELSE IF s[i] = sep THEN <<cur>> \o SplitFrom(s, sep, i + 1, <<>>)
    ELSE SplitFrom(s, sep, i + 1, Append(cur, s[i]))

Split(s, sep) == SplitFrom(s, sep, 1, <<>>)

\* strings.Contains(s, sub)
Contains(s, sub) ==
    \E i \in 0..(Len(s) - Len(sub)) : SubSeq(s, i + 1, i + Len(sub)) = sub

\* ------------------------------------------------------------------------
\* Go int (64 bit, two's complement) as limbs <<l0, l1, l2, l3>>, base 2^16
\* ------------------------------------------------------------------------

LimbBase == 2 ^ 16

Zero == <<0, 0, 0, 0>>

MaxInt == <<LimbBase - 1, LimbBase - 1, LimbBase - 1, (LimbBase \div 2) - 1>>

MinInt == <<0, 0, 0, LimbBase \div 2>>

IsNeg(a) == a[4] >= LimbBase \div 2

\* a + b, wrapping modulo 2^64 as Go's int addition does
Add(a, b) ==
    LET s1 == a[1] + b[1]
        s2 == a[2] + b[2] + (s1 \div LimbBase)
        s3 == a[3] + b[3] + (s2 \div LimbBase)
        s4 == a[4] + b[4] + (s3 \div LimbBase)
    IN  <<s1 % LimbBase, s2 % LimbBase, s3 % LimbBase, s4 % LimbBase>>

\* -a, wrapping (MinInt is its own negation)
Neg(a) ==
    Add(<<LimbBase - 1 - a[1], LimbBase - 1 - a[2],
          LimbBase - 1 - a[3], LimbBase - 1 - a[4]>>, <<1, 0, 0, 0>>)

\* The Go int of a small non-negative TLA+ number (below 2^31).
FromNat(n) == <<n % LimbBase, n \div LimbBase, 0, 0>>

\* The unsigned 64-bit value 10*a + d: the limbs, and whether it left 64 bits.
MulAdd10(a, d) ==
    LET s1 == a[1] * 10 + d
        s2 == a[2] * 10 + (s1 \div LimbBase)
        s3 == a[3] * 10 + (s2 \div LimbBase)
        s4 == a[4] * 10 + (s3 \div LimbBase)
    IN  [val |-> <<s1 % LimbBase, s2 % LimbBase, s3 % LimbBase, s4 % LimbBase>>,
         over |-> s4 \div LimbBase > 0]

\* The unsigned 64-bit value a divided by 10: quotient limbs and remainder.
DivMod10(a) ==
    LET c4 == a[4]
        c3 == (c4 % 10) * LimbBase + a[3]
        c2 == (c3 % 10) * LimbBase + a[2]
        c1 == (c2 % 10) * LimbBase + a[1]
    IN  [quo |-> <<c1 \div 10, c2 \div 10, c3 \div 10, c4 \div 10>>,
         rem |-> c1 % 10]

\* strconv.ParseUint(s, 10, 64) from character i on, n the value so far:
\* left to right, the first bad character is a syntax error (value 0), the
\* first digit that leaves 64 bits a range error (value: the maximum).
RECURSIVE ParseUintFrom(_, _, _)

\* ... the step after the digit at i gave m
ParseUintDigit(s, i, m) ==
    IF m.over
    THEN [val |-> <<LimbBase - 1, LimbBase - 1, LimbBase - 1, LimbBase - 1>>,
          err |-> "range"]
    ELSE ParseUintFrom(s, i + 1, m.val)

ParseUintFrom(s, i, n) ==
    IF i > Len(s) THEN [val |-> n, err |-> "none"]
    ELSE IF ~IsDigit(s[i]) THEN [val |-> Zero, err |-> "syntax"]
    ELSE ParseUintDigit(s, i, MulAdd10(n, DigitVal(s[i])))

\* strconv.ParseUint(body, 10, 64)
ParseUint(body) ==
    IF Len(body) = 0 THEN [val |-> Zero, err |-> "syntax"]
    ELSE ParseUintFrom(body, 1, Zero)

\* strconv.ParseInt's handling of the sign neg and of ParseUint's result u:
\* a syntax error gives 0, a magnitude outside the int range the nearest int.
ParseIntSigned(neg, u) ==
    IF u.err = "syntax" THEN [val |-> Zero, err |-> "syntax"]
    ELSE IF ~neg /\ IsNeg(u.val) THEN [val |-> MaxInt, err |-> "range"]
    ELSE IF neg /\ IsNeg(u.val) /\ u.val # MinInt
         THEN [val |-> MinInt, err |-> "range"]
    ELSE [val |-> IF neg THEN Neg(u.val) ELSE u.val, err |-> "none"]

\* strconv.Atoi(s): an optional sign, then decimal digits.  A syntax error
\* gives 0; a value outside the int range gives the nearest int, with an
\* error that NewPin drops.
Atoi(s) ==
    IF Len(s) = 0 THEN [val |-> Zero, err |-> "syntax"]
    ELSE ParseIntSigned(s[1] = "-",
             ParseUint(IF s[1] = "-" \/ s[1] = "+" THEN Tail(s) ELSE s))

\* The decimal digits of the unsigned 64-bit value a, most significant first.
RECURSIVE UDigits(_)

UDigitsOf(dm) ==
    IF dm.quo = Zero THEN <<Digits[dm.rem + 1]>>
    ELSE Append(UDigits(dm.quo), Digits[dm.rem + 1])

UDigits(a) == UDigitsOf(DivMod10(a))

\* fmt's %d of a Go int
FormatInt(a) == IF IsNeg(a) THEN <<"-">> \o UDigits(Neg(a)) ELSE UDigits(a)

\* ------------------------------------------------------------------------
\* String constants of the source and of the modelled inputs
\* ------------------------------------------------------------------------

StrGpio == <<"g", "p", "i", "o">>
GpioBank(d) == StrGpio \o <<d>>
StrGpioPinDesc == StrGpio \o <<"-", "p", "i", "n", "-", "d", "e", "s", "c">>
StrOutputHigh == <<"o", "u", "t", "p", "u", "t", "-", "h", "i", "g", "h">>
StrOutputLow == <<"o", "u", "t", "p", "u", "t", "-", "l", "o", "w">>
StrInput == <<"i", "n", "p", "u", "t">>
StrHigh == <<"h", "i", "g", "h">>
StrLow == <<"l", "o", "w">>
StrIn == <<"i", "n">>
StrEmpty == <<>>
\* the zero byte that ends a property value of the tree
NUL == "NUL"
\* the newline of "%d\n"
NL == "NL"

\* ------------------------------------------------------------------------
\* Package state helpers
\* ------------------------------------------------------------------------

\* var GpioBankToBase
GpioBankToBase ==
    (GpioBank("0") :> 0) @@ (GpioBank("1") :> 32) @@ (GpioBank("2") :> 64) @@
    (GpioBank("3") :> 96) @@ (GpioBank("4") :> 128) @@ (GpioBank("5") :> 160) @@
    (GpioBank("6") :> 192)

\* var GpioPinMode
GpioPinMode ==
    (StrOutputHigh :> StrHigh) @@ (StrOutputLow :> StrLow) @@ (StrInput :> StrIn)

\* GpioBankToBase[bank]: a missing key reads as the zero int
BankBase(bank) ==
    IF bank \in DOMAIN GpioBankToBase THEN FromNat(GpioBankToBase[bank]) ELSE Zero

\* GpioPinMode[mode]: a missing key reads as the empty string
PinMode(mode) ==
    IF mode \in DOMAIN GpioPinMode THEN GpioPinMode[mode] ELSE StrEmpty

\* type Pin
MkPin(gpio, name, default) == [Gpio |-> gpio, Name |-> name, Default |-> default]

\* A Go map variable: nil until made.  m holds the entries.
NilMap == [nil |-> TRUE, m |-> <<>>]

\* make(PinMap), make(GpioAliasMap): a map with no key
MakeMap == [nil |-> FALSE, m |-> <<>>]

\* m[k] = v on a made Go map
MapSet(mp, k, v) ==
    [nil |-> FALSE,
     m |-> [x \in (DOMAIN mp.m) \cup {k} |-> IF x = k THEN v ELSE mp.m[x]]]

\* ------------------------------------------------------------------------
\* The world an operation acts on:
\*   pins         var pins
\*   fs           the pseudo-filesystem under the prefix in force:
\*                  exportFile  /sys/class/gpio/export can be opened
\*                  kernelOK    a write of a pin number to it is accepted
\*                  valueFiles  the N (decimal) with /sys/class/gpio/gpioN/value
\*   writes       what the export file accepted, in order
\*   exportCalls  how many times Pin.Export ran
\*   log          how many "Error setting" lines gatherPins printed
\* ------------------------------------------------------------------------

\* Pin.IsExported: os.Stat of gpio%d/value succeeds
IsExported(p, f) == FormatInt(p.Gpio) \in f.valueFiles

\* Whether the file behind the export handle takes the write of text: the
\* kernel refuses a negative number and any number when it has no such line.
WriteAccepted(text, f) == f.kernelOK /\ text[1] # "-"

\* Pin.Export has been entered
ExportBegin(w) == [w EXCEPT !.exportCalls = @ + 1]

\* "fmt.Fprintf(f, "%d\n", p.Gpio)" and the return: what fmt.Fprintf returns
\* is not looked at, so a write that fails still returns a nil error.
ExportWrite(num, w) ==
    IF WriteAccepted(num \o <<NL>>, w.fs)
    THEN [w |-> [w EXCEPT !.writes = Append(@, num \o <<NL>>),
                          !.fs.valueFiles = @ \cup {num}],
          err |-> FALSE, opened |-> TRUE, wrote |-> TRUE]
    ELSE [w |-> w, err |-> FALSE, opened |-> TRUE, wrote |-> FALSE]

\* ... from os.OpenFile on: the open error is returned
ExportOpen(p, w) ==
    IF ~w.fs.exportFile
    THEN [w |-> w, err |-> TRUE, opened |-> FALSE, wrote |-> FALSE]
    ELSE ExportWrite(FormatInt(p.Gpio), w)

\* Pin.Export
Export(p, w) == ExportOpen(p, ExportBegin(w))

\* A store that keeps the entry a name already has
RegisterKeepFirst(pinmap, name, p) ==
    IF name \in DOMAIN pinmap.m THEN pinmap ELSE MapSet(pinmap, name, p)

\* The map entry NewPin stores under name
Register(pinmap, name, p) == MapSet(pinmap, name, p)

\* A Pin numbered by its index alone, the bank base left out
NewPinValueNoBase(name, mode, bank, index) ==
    MkPin(Atoi(index).val, name, PinMode(mode))

\* The Pin that NewPin builds
NewPinValue(name, mode, bank, index) ==
    MkPin(Add(BankBase(bank), Atoi(index).val), name, PinMode(mode))

\* NewPin(name, mode, bank, index).  The store into a nil pins map panics
\* (assignment to entry in nil map) before anything else has happened.
NewPinReturn(e) == [w |-> e.w, err |-> e.err, panic |-> FALSE]

\* ... from "if p.IsExported()" on
NewPinExport(p, w) ==
    IF IsExported(p, w.fs)
    THEN [w |-> w, err |-> FALSE, panic |-> FALSE]
    ELSE NewPinReturn(Export(p, w))

\* ... from "pins[name] = p" on
NewPinStore(name, p, w) ==
    IF w.pins.nil
    THEN [w |-> w, err |-> FALSE, panic |-> TRUE]
    ELSE NewPinExport(p, [w EXCEPT !.pins = Register(w.pins, name, p)])

NewPin(name, mode, bank, index, w) ==
    NewPinStore(name, NewPinValue(name, mode, bank, index), w)

\* ------------------------------------------------------------------------
\* Discovery.  The hardware description tree (fdt.DefaultTree()) is
\*   [nil, aliasProps, controllers]: nil when there is no tree; aliasProps
\*   the Properties of the node named "aliases" (name -> value bytes);
\*   controllers the nodes that carry the gpio-controller property, each
\*   [Name, Children], a child being [Name, Properties] (the property names).
\* Go ranges over a map in an order it picks afresh each time; the order in
\* which the tree hands over the controllers and a node's children is the
\* tree package's.  A walk is one such choice of orders.
\* ------------------------------------------------------------------------

Last(q) == q[Len(q)]

\* gatherAliases(n): every property whose name contains "gpio" maps that
\* name to the last path segment of its value, cut at the first zero byte.
AliasValue(pv) == Last(Split(Split(pv, NUL)[1], "/"))

GatherAliases(props, al) ==
    LET hit == {p \in DOMAIN props : Contains(p, StrGpio)}
    IN  [nil |-> FALSE,
         m |-> [p \in (DOMAIN al.m) \cup hit |->
                  IF p \in hit THEN AliasValue(props[p]) ELSE al.m[p]]]

ModeProps(c) == c.Properties \cap {StrOutputHigh, StrOutputLow, StrInput}

\* What the range over c.Properties leaves behind, for each order it can
\* take: whether gpio-pin-desc was met, and the mode property met last.
ChildVisits(na, c) ==
    {[na |-> na, cname |-> c.Name, desc |-> StrGpioPinDesc \in c.Properties,
      mode |-> md] :
        md \in IF ModeProps(c) = {} THEN {StrEmpty} ELSE ModeProps(c)}

\* The visits of the range over n.Children, in every order
RECURSIVE ChildVisitSeqs(_, _)
ChildVisitSeqs(na, cs) ==
    IF cs = {} THEN {<<>>}
    ELSE UNION {{<<v>> \o rest : v \in ChildVisits(na, c),
                                rest \in ChildVisitSeqs(na, cs \ {c})} : c \in cs}

\* The visits of the range over the aliases nas (those that name n), in
\* every order
RECURSIVE AliasVisitSeqs(_, _)
AliasVisitSeqs(nas, n) ==
    IF nas = {} THEN {<<>>}
    ELSE UNION {{first \o rest : first \in ChildVisitSeqs(na, n.Children),
                                rest \in AliasVisitSeqs(nas \ {na}, n)} : na \in nas}

\* Every sequence of child visits one call gatherPins(n) can make
VisitSeqs(n, al) == AliasVisitSeqs({na \in DOMAIN al.m : al.m[na] = n.Name}, n)

\* gatherPins(n) along the visits from the i-th on.  pn is declared once per
\* call and assigned only at a gpio-pin-desc property; pn[0] or pn[1] out of
\* range panics.  A NewPin error is printed and the scan goes on.
RECURSIVE GatherPinsFrom(_, _, _, _)

\* "if err != nil { fmt.Printf(...) }": the world after NewPin returned r
Logged(r) == IF r.err THEN [r.w EXCEPT !.log = @ + 1] ELSE r.w

\* A scan that ends at the first NewPin error
GatherPinsAfterAbort(visits, i, pn, r) ==
    IF r.panic THEN [w |-> r.w, panic |-> TRUE]
    ELSE IF r.err THEN [w |-> Logged(r), panic |-> FALSE]
    ELSE GatherPinsFrom(visits, i + 1, pn, Logged(r))

\* ... after NewPin returned r for the i-th visit
GatherPinsAfter(visits, i, pn, r) ==
    IF r.panic THEN [w |-> r.w, panic |-> TRUE]
    ELSE GatherPinsFrom(visits, i + 1, pn, Logged(r))

\* ... the i-th visit v, pn as the range over its properties left it
GatherPinsChild(visits, i, v, pn, w) ==
    IF Len(pn) < 2 THEN [w |-> w, panic |-> TRUE]
    ELSE GatherPinsAfter(visits, i, pn, NewPin(pn[1], v.mode, v.na, pn[2], w))

GatherPinsFrom(visits, i, pn, w) ==
    IF i > Len(visits) THEN [w |-> w, panic |-> FALSE]
    ELSE GatherPinsChild(visits, i, visits[i],
             IF visits[i].desc THEN Split(visits[i].cname, "@") ELSE pn, w)

GatherPins(visits, w) == GatherPinsFrom(visits, 1, <<>>, w)

\* Every walk t.EachProperty("gpio-controller", "", gatherPins) can take:
\* the controllers in some order, each with its visits.
RECURSIVE Walks(_, _)
Walks(ns, al) ==
    IF ns = {} THEN {<<>>}
    ELSE UNION {{<<[node |-> n.Name, visits |-> vs]>> \o rest :
                    vs \in VisitSeqs(n, al), rest \in Walks(ns \ {n}, al)} : n \in ns}

\* The walk from its i-th controller on; a panic ends it.
RECURSIVE RunWalk(_, _, _)

RunWalkNext(walk, i, r) == IF r.panic THEN r ELSE RunWalk(walk, i + 1, r.w)

RunWalk(walk, i, w) ==
    IF i > Len(walk) THEN [w |-> w, panic |-> FALSE]
    ELSE RunWalkNext(walk, i, GatherPins(walk[i].visits, w))

\* A guard that takes an empty aliases map for an unmade one
NeedsInitWhenEmpty(al) == DOMAIN al.m = {}

\* gpioInit's guard
NeedsInit(al) == al.nil

\* The aliases map gpioInit leaves
InitAliases(tree) ==
    IF tree.nil THEN MakeMap ELSE GatherAliases(tree.aliasProps, MakeMap)

\* The walks gpioInit can take in this state
WalkChoices(al, tree) ==
    IF NeedsInit(al) /\ ~tree.nil
    THEN Walks(tree.controllers, InitAliases(tree))
    ELSE {<<>>}

\* gpioInit(): nothing once aliases is made; else both maps are made anew
\* and, when there is a tree, filled along the walk.
GpioInitDone(tree, r) ==
    [aliases |-> InitAliases(tree), w |-> r.w, panic |-> r.panic, ran |-> TRUE]

GpioInit(al, tree, wk, w) ==
    IF ~NeedsInit(al)
    THEN [aliases |-> al, w |-> w, panic |-> FALSE, ran |-> FALSE]
    ELSE GpioInitDone(tree,
             IF tree.nil THEN [w |-> [w EXCEPT !.pins = MakeMap], panic |-> FALSE]
             ELSE RunWalk(wk, 1, [w EXCEPT !.pins = MakeMap]))

\* ------------------------------------------------------------------------
\* Bounds and inputs
\* ------------------------------------------------------------------------

\* calls made to the package in one run
MaxCalls == 2

\* children of the controller whose children vary
MaxChildren == 2

StrLed == <<"l", "e", "d">>
StrZz == <<"z", "z">>
StrG1 == <<"g", "1">>
StrG2 == <<"g", "2">>
StrSerial0 == <<"s", "e", "r", "i", "a", "l", "0">>
PathG1 == <<"/", "s", "/", "g", "1", NUL>>
PathG1Short == <<"/", "g", "1", NUL>>
PathG2 == <<"/", "s", "/", "g", "2", NUL>>

\* Child nodes a controller can have: a plain input pin; one with two mode
\* properties; one without gpio-pin-desc; one without a mode and with an
\* index that is no number.
ChildLed ==
    [Name |-> <<"l", "e", "d", "@", "5">>,
     Properties |-> {StrGpioPinDesc, StrInput}]

ChildNoDesc == [Name |-> <<"b", "@", "2">>, Properties |-> {StrOutputHigh}]

ChildPool ==
    {ChildLed,
     [Name |-> <<"r", "s", "t", "@", "3">>,
      Properties |-> {StrGpioPinDesc, StrOutputHigh, StrOutputLow}],
     ChildNoDesc,
     [Name |-> <<"k", "@", "z">>, Properties |-> {StrGpioPinDesc}]}

NodeG1(cs) == [Name |-> StrG1, Children |-> cs]

NodeG2 ==
    [Name |-> StrG2,
     Children |-> {[Name |-> <<"l", "e", "d", "@", "9">>,
                    Properties |-> {StrGpioPinDesc, StrOutputLow}]}]

NoAliases == <<>>
OneAlias == (GpioBank("1") :> PathG1)
TwoAliasesOneNode == (GpioBank("0") :> PathG1) @@ (GpioBank("1") :> PathG1Short)
TwoNodes ==
    (GpioBank("1") :> PathG1) @@ (GpioBank("2") :> PathG2) @@ (StrSerial0 :> PathG1)

NoTree == [nil |-> TRUE, aliasProps |-> <<>>, controllers |-> {}]

Trees ==
    {NoTree} \cup
    UNION {{[nil |-> FALSE, aliasProps |-> NoAliases, controllers |-> {NodeG1(cs)}],
            [nil |-> FALSE, aliasProps |-> OneAlias, controllers |-> {NodeG1(cs)}],
            [nil |-> FALSE, aliasProps |-> TwoAliasesOneNode,
             controllers |-> {NodeG1(cs)}],
            [nil |-> FALSE, aliasProps |-> TwoNodes,
             controllers |-> {NodeG1(cs), NodeG2}]} :
               cs \in {c \in SUBSET ChildPool : Cardinality(c) <= MaxChildren}}

\* The pseudo-filesystem at start: a working sysfs; one whose kernel refuses
\* every number; none at all.
FsInits ==
    {[exportFile |-> TRUE, kernelOK |-> TRUE, valueFiles |-> {}],
     [exportFile |-> TRUE, kernelOK |-> FALSE, valueFiles |-> {}],
     [exportFile |-> FALSE, kernelOK |-> FALSE, valueFiles |-> {}]}

\* The prefixes SetDebugPrefix is called with: none, and a scratch tree
StrScratch == <<"/", "t">>

Prefixes == {StrEmpty, StrScratch}

\* The scratch tree at start: a working sysfs with nothing exported
ScratchTree == [exportFile |-> TRUE, kernelOK |-> TRUE, valueFiles |-> {}]

\* goroutines that call into the package at the same time
NThreads == 2

Threads == 1..NThreads

\* names looked up
NameInputs == {StrLed, StrZz}

\* NewPin(name, mode, bank, index) as callers of the package make it
NewPinInputs ==
    {[name |-> StrLed, mode |-> StrEmpty, bank |-> GpioBank("2"),
      index |-> <<"z">>],
     [name |-> StrZz, mode |-> StrInput, bank |-> StrSerial0,
      index |-> <<"5">>]}

\* ------------------------------------------------------------------------
\* State
\* ------------------------------------------------------------------------

VARIABLES
    tree,         \* what fdt.DefaultTree() returns
    prefix,       \* var prefix
    disk,         \* the pseudo-filesystem under each prefix
    aliases,      \* var aliases
    pins,         \* var pins
    writes,       \* the texts the export file accepted
    exportCalls,  \* number of runs of Pin.Export
    log,          \* number of lines gatherPins printed
    discoveries,  \* number of times gpioInit made the maps
    walk,         \* the orders the last discovery took
    last,         \* the last call on the registry or a pin, and what it returned
    ncalls,       \* number of calls made
    thr           \* the goroutines inside a call, each at its statement

vars == <<tree, prefix, disk, aliases, pins, writes, exportCalls, log, discoveries, walk,
          last, ncalls, thr>>

\* the pseudo-filesystem the package acts on
fs == disk[prefix]

World == [pins |-> pins, fs |-> fs, writes |-> writes,
          exportCalls |-> exportCalls, log |-> log]

SetWorld(w) ==
    /\ pins' = w.pins
    /\ disk' = [disk EXCEPT ![prefix] = w.fs]
    /\ writes' = w.writes
    /\ exportCalls' = w.exportCalls
    /\ log' = w.log

\* the nil *Pin
NoPin == MkPin(Zero, StrEmpty, StrEmpty)

NoCall ==
    [op |-> "none", name |-> StrEmpty, mode |-> StrEmpty, bank |-> StrEmpty,
     index |-> StrEmpty, found |-> FALSE, pin |-> NoPin, count |-> 0,
     all |-> NilMap, err |-> FALSE, panic |-> FALSE, opened |-> FALSE,
     wrote |-> FALSE, ran |-> FALSE, had |-> FALSE, old |-> NoPin]

\* the node of no controller
NoNode == [Name |-> StrEmpty, Children |-> {}]

\* A goroutine that has not called yet.  Inside gpioInit it holds: props,
\* the properties of the aliases node still to range over; todo, the
\* controllers still to hand to gatherPins; node, the controller gatherPins
\* runs on; of its range over aliases, whether the variable still holds the
\* map it goes over (held; else obj is that map), the names the map had at
\* the start (start) and those produced (seen); visits and idx, the range
\* over the children; pn; pin, the Pin that NewPin built.
IdleThread ==
    [pc |-> "idle", op |-> "none", name |-> StrEmpty, props |-> {},
     todo |-> <<>>, node |-> NoNode, held |-> TRUE, obj |-> <<>>,
     start |-> {}, seen |-> {}, visits |-> <<>>, idx |-> 0, pn |-> <<>>,
     pin |-> NoPin, result |-> NoCall]

Init ==
    /\ tree \in Trees
    /\ prefix = StrEmpty
    /\ disk \in {(StrEmpty :> f) @@ (StrScratch :> ScratchTree) : f \in FsInits}
    /\ aliases = NilMap
    /\ pins = NilMap
    /\ writes = <<>>
    /\ exportCalls = 0
    /\ log = 0
    /\ discoveries = 0
    /\ walk = <<>>
    /\ last = NoCall
    /\ ncalls = 0
    /\ thr = [t \in Threads |-> IdleThread]

\* pins[name] read as FindPin does: the zero value when absent or nil
Lookup(pinmap, name) ==
    IF name \in DOMAIN pinmap.m
    THEN [pin |-> pinmap.m[name], found |-> TRUE]
    ELSE [pin |-> NoPin, found |-> FALSE]

\* What the call op(name) returns on the registry pinmap
LookupResult(op, name, pinmap) ==
    [NoCall EXCEPT
       !.op = op, !.name = name,
       !.found = (op = "FindPin") /\ Lookup(pinmap, name).found,
       !.pin = IF op = "FindPin" THEN Lookup(pinmap, name).pin ELSE NoPin,
       !.count = IF op = "NumPins" THEN Cardinality(DOMAIN pinmap.m) ELSE 0,
       !.all = IF op = "AllPins" THEN pinmap ELSE NilMap]

\* The state after gpioInit() ended as g along the walk wk
LookupDone(op, name, wk, g) ==
    /\ aliases' = g.aliases
    /\ SetWorld(g.w)
    /\ discoveries' = IF g.ran THEN discoveries + 1 ELSE discoveries
    /\ walk' = IF g.ran THEN wk ELSE walk
    /\ last' = IF g.panic
               THEN [NoCall EXCEPT !.op = op, !.name = name, !.panic = TRUE,
                                   !.ran = g.ran]
               ELSE [LookupResult(op, name, g.w.pins) EXCEPT !.ran = g.ran]

\* A call that starts with gpioInit() and then reads pins into its result.
\* A panic in the walk leaves the call without a result; the run goes on as
\* it does for a caller that recovers.
LookupCall(op, name) ==
    /\ ncalls < MaxCalls
    /\ \E wk \in WalkChoices(aliases, tree) :
          LookupDone(op, name, wk, GpioInit(aliases, tree, wk, World))
    /\ ncalls' = ncalls + 1
    /\ UNCHANGED <<tree, prefix, thr>>

FindPin == \E name \in NameInputs : LookupCall("FindPin", name)

NumPins == LookupCall("NumPins", StrEmpty)

AllPins == LookupCall("AllPins", StrEmpty)

\* A caller's NewPin(in.name, in.mode, in.bank, in.index)
NewPinDone(in, r) ==
    /\ SetWorld(r.w)
    /\ last' = [NoCall EXCEPT !.op = "NewPin", !.name = in.name,
                              !.mode = in.mode, !.bank = in.bank,
                              !.index = in.index, !.err = r.err,
                              !.panic = r.panic,
                              !.had = Lookup(pins, in.name).found,
                              !.old = Lookup(pins, in.name).pin]

NewPinCall(in) ==
    /\ ncalls < MaxCalls
    /\ NewPinDone(in, NewPin(in.name, in.mode, in.bank, in.index, World))
    /\ ncalls' = ncalls + 1
    /\ UNCHANGED <<tree, prefix, aliases, discoveries, walk, thr>>

NewPinAny == \E in \in NewPinInputs : NewPinCall(in)

\* A caller's p.Export() on a pin it got from the registry
ExportDone(name, r) ==
    /\ SetWorld(r.w)
    /\ last' = [NoCall EXCEPT !.op = "Export", !.name = name,
                              !.pin = pins.m[name], !.err = r.err,
                              !.opened = r.opened, !.wrote = r.wrote]

ExportCall ==
    /\ ncalls < MaxCalls
    /\ \E name \in DOMAIN pins.m : ExportDone(name, Export(pins.m[name], World))
    /\ ncalls' = ncalls + 1
    /\ UNCHANGED <<tree, prefix, aliases, discoveries, walk, thr>>

\* SetDebugPrefix(p), made ahead of a call that the run still has: from now
\* on the files are those under p
SetDebugPrefix ==
    /\ ncalls < MaxCalls
    /\ \E p \in Prefixes : prefix' = p
    /\ UNCHANGED <<tree, disk, aliases, pins, writes, exportCalls, log,
                   discoveries, walk, last, ncalls, thr>>

Next == FindPin \/ NumPins \/ AllPins \/ NewPinAny \/ ExportCall \/ SetDebugPrefix

Spec == Init /\ [][Next]_vars

\* ------------------------------------------------------------------------
\* NewPin over a wide range of bank and index strings, on a registry that a
\* first lookup made (SpecNewPin)
\* ------------------------------------------------------------------------

IndexInputs ==
    {<<"5">>, <<>>, <<"z">>, <<"-", "3">>, <<"+", "7">>, <<"1", "z">>,
     <<"0", "0", "7">>, <<"-">>, <<"-", "0">>,
     <<"9", "2", "2", "3", "3", "7", "2", "0", "3", "6", "8", "5", "4", "7", "7",
       "5", "8", "0", "7">>,
     <<"9", "2", "2", "3", "3", "7", "2", "0", "3", "6", "8", "5", "4", "7", "7",
       "5", "8", "0", "8">>,
     <<"-", "9", "2", "2", "3", "3", "7", "2", "0", "3", "6", "8", "5", "4", "7",
       "7", "5", "8", "0", "8">>,
     <<"-", "9", "2", "2", "3", "3", "7", "2", "0", "3", "6", "8", "5", "4", "7",
       "7", "5", "8", "0", "9">>,
     <<"9", "9", "9", "9", "9", "9", "9", "9", "9", "9", "9", "9", "9", "9", "9",
       "9", "9", "9", "9", "9", "z">>}

BankInputs == {GpioBank("0"), GpioBank("1"), GpioBank("6"), GpioBank("7")}

WideInputs ==
    {[name |-> StrLed, mode |-> StrInput, bank |-> b, index |-> i] :
        b \in BankInputs, i \in IndexInputs}

NewPinWide == \E in \in WideInputs : NewPinCall(in)

InitNewPin == Init /\ tree = NoTree

NextNewPin == NumPins \/ NewPinWide

SpecNewPin == InitNewPin /\ [][NextNewPin]_vars

\* ------------------------------------------------------------------------
\* Goroutines calling FindPin, NumPins and AllPins at the same time
\* (SpecConc).  The package takes no lock.  A step is one statement that
\* touches what the goroutines share (the variables aliases and pins, the
\* maps they hold, the files, the output), together with the goroutine's own
\* computation that leads up to it.  Two goroutines about to touch the same
\* map, one of them to store, race: the Go runtime may stop the process
\* ("fatal error: concurrent map writes", "concurrent map iteration and map
\* write", "concurrent map read and map write"), and of two racing stores
\* one may be lost.  A panic in one goroutine ends the process as well.
\* ------------------------------------------------------------------------

Alive == \A t \in Threads : thr[t].pc \notin {"panic", "fatal"}

\* the sequences that list the set q once each
RECURSIVE SeqsOf(_)
SeqsOf(q) ==
    IF q = {} THEN {<<>>}
    ELSE UNION {{<<x>> \o r : r \in SeqsOf(q \ {x})} : x \in q}

\* pn after the range over the properties of the child goroutine u is at
PnAt(u) ==
    IF thr[u].visits[thr[u].idx].desc
    THEN Split(thr[u].visits[thr[u].idx].cname, "@")
    ELSE thr[u].pn

\* the next statement of goroutine u is "aliases[p] = ..."
StoresAliases(u) ==
    thr[u].pc = "aliasProp" /\ \E p \in thr[u].props : Contains(p, StrGpio)

\* the next statement of goroutine u is the next turn of its range over the
\* map that aliases holds
RangesAliases(u) == thr[u].pc = "alias" /\ thr[u].held

\* the next statement of goroutine u is "pins[name] = p"
StoresPins(u) ==
    /\ thr[u].pc = "child" /\ thr[u].idx <= Len(thr[u].visits)
    /\ Len(PnAt(u)) >= 2 /\ ~pins.nil

\* the next statement of goroutine u is "p, f = pins[name]"
ReadsPins(u) == thr[u].pc = "read" /\ thr[u].op = "FindPin" /\ ~pins.nil

\* goroutine t enters FindPin(name), NumPins() or AllPins()
Call(t) ==
    /\ Alive /\ thr[t].pc = "idle"
    /\ \E c \in {[op |-> "FindPin", name |-> StrLed],
                  [op |-> "NumPins", name |-> StrEmpty],
                  [op |-> "AllPins", name |-> StrEmpty]} :
          thr' = [thr EXCEPT ![t].pc = "check", ![t].op = c.op, ![t].name = c.name]
    /\ UNCHANGED <<tree, prefix, disk, aliases, pins, writes, exportCalls, log,
                   discoveries, walk, last, ncalls>>

\* "if aliases != nil { return }"
Check(t) ==
    /\ Alive /\ thr[t].pc = "check"
    /\ thr' = [thr EXCEPT ![t].pc = IF NeedsInit(aliases) THEN "makeAliases"
                                     ELSE "read"]
    /\ UNCHANGED <<tree, prefix, disk, aliases, pins, writes, exportCalls, log,
                   discoveries, walk, last, ncalls>>

\* the statements of gatherPins from the range over aliases to its end
InRange == {"alias", "child", "stat", "open", "write", "print"}

\* "aliases = make(GpioAliasMap)".  A goroutine that is ranging over the map
\* aliases held goes on over that map, which nobody stores into any more.
MakeAliases(t) ==
    /\ Alive /\ thr[t].pc = "makeAliases"
    /\ aliases' = MakeMap
    /\ discoveries' = discoveries + 1
    /\ thr' = [u \in Threads |->
                 IF u = t THEN [thr[u] EXCEPT !.pc = "makePins"]
                 ELSE IF thr[u].pc \in InRange /\ thr[u].held
                      THEN [thr[u] EXCEPT !.held = FALSE, !.obj = aliases.m]
                 ELSE thr[u]]
    /\ UNCHANGED <<tree, prefix, disk, pins, writes, exportCalls, log, walk,
                   last, ncalls>>

\* "pins = make(PinMap)"
MakePins(t) ==
    /\ Alive /\ thr[t].pc = "makePins"
    /\ pins' = MakeMap
    /\ thr' = [thr EXCEPT ![t].pc = "tree"]
    /\ UNCHANGED <<tree, prefix, disk, aliases, writes, exportCalls, log,
                   discoveries, walk, last, ncalls>>

\* "t := fdt.DefaultTree()" and "if t != nil": with a tree,
\* t.MatchNode("aliases", gatherAliases) is entered
TreeStep(t) ==
    /\ Alive /\ thr[t].pc = "tree"
    /\ thr' = IF tree.nil
              THEN [thr EXCEPT ![t].pc = "read"]
              ELSE [thr EXCEPT ![t].pc = "aliasProp",
                               ![t].props = DOMAIN tree.aliasProps]
    /\ UNCHANGED <<tree, prefix, disk, aliases, pins, writes, exportCalls, log,
                   discoveries, walk, last, ncalls>>

\* The maps a store "m[k] = v" can leave in the variable that holds mp: the
\* map with the entry, or, when another store races with it, the map as it
\* was (the store is lost).
StoreOutcomes(mp, k, v, raced) ==
    {MapSet(mp, k, v)} \cup (IF raced THEN {mp} ELSE {})

\* One turn of the range over n.Properties in gatherAliases: the property p
\* is met and, when its name contains "gpio", "aliases[p] = v[len(v)-1]" is
\* run on the map aliases holds now.  After the last turn the walk over the
\* controllers starts, in some order.
AliasStep(t) ==
    /\ Alive /\ thr[t].pc = "aliasProp"
    /\ IF thr[t].props = {}
       THEN /\ \E q \in SeqsOf(tree.controllers) :
                  thr' = [thr EXCEPT ![t].pc = "walk", ![t].todo = q]
            /\ UNCHANGED aliases
       ELSE \E p \in thr[t].props :
              /\ thr' = [thr EXCEPT ![t].props = @ \ {p}]
              /\ IF Contains(p, StrGpio)
                 THEN aliases' \in
                        StoreOutcomes(aliases, p, AliasValue(tree.aliasProps[p]),
                            \E u \in Threads \ {t} : StoresAliases(u))
                 ELSE UNCHANGED aliases
    /\ UNCHANGED <<tree, prefix, disk, pins, writes, exportCalls, log,
                   discoveries, walk, last, ncalls>>

\* gatherPins(n) is entered for the next controller: "var pn []string", and
\* the range over aliases starts on the map the variable holds now
WalkStep(t) ==
    /\ Alive /\ thr[t].pc = "walk"
    /\ thr' = IF thr[t].todo = <<>>
              THEN [thr EXCEPT ![t].pc = "read", ![t].node = NoNode,
                               ![t].held = TRUE, ![t].obj = <<>>,
                               ![t].start = {}, ![t].seen = {},
                               ![t].visits = <<>>, ![t].idx = 0,
                               ![t].pn = <<>>, ![t].pin = NoPin]
              ELSE [thr EXCEPT ![t].pc = "alias", ![t].node = Head(thr[t].todo),
                               ![t].todo = Tail(@),
                               ![t].held = TRUE, ![t].obj = <<>>,
                               ![t].start = DOMAIN aliases.m, ![t].seen = {},
                               ![t].visits = <<>>, ![t].idx = 0,
                               ![t].pn = <<>>, ![t].pin = NoPin]
    /\ UNCHANGED <<tree, prefix, disk, aliases, pins, writes, exportCalls, log,
                   discoveries, walk, last, ncalls>>

\* the map the range of goroutine t goes over, as it is now
RangeMap(t) == IF thr[t].held THEN aliases.m ELSE thr[t].obj

\* One turn of "for na, al := range aliases": an entry not produced yet is
\* produced, and with "al == n.Name" the range over n.Children starts, in
\* some order.  The range can end once every entry the map had at its start
\* has been produced; an entry stored since may be produced or skipped.
RangeStep(t) ==
    /\ Alive /\ thr[t].pc = "alias"
    /\ \/ /\ thr[t].start \subseteq thr[t].seen
          /\ thr' = [thr EXCEPT ![t].pc = "walk"]
       \/ \E na \in (DOMAIN RangeMap(t)) \ thr[t].seen :
             IF RangeMap(t)[na] = thr[t].node.Name
             THEN \E vs \in ChildVisitSeqs(na, thr[t].node.Children) :
                     thr' = [thr EXCEPT ![t].seen = @ \cup {na},
                                        ![t].pc = "child",
                                        ![t].visits = vs, ![t].idx = 1]
             ELSE thr' = [thr EXCEPT ![t].seen = @ \cup {na}]
    /\ UNCHANGED <<tree, prefix, disk, aliases, pins, writes, exportCalls, log,
                   discoveries, walk, last, ncalls>>

\* NewPin(pn[0], mode, na, pn[1]) up to "pins[name] = p", for the visit v
ChildStore(t, v, pn) ==
    IF Len(pn) < 2 \/ pins.nil
    THEN /\ thr' = [thr EXCEPT ![t].pc = "panic"]
         /\ UNCHANGED pins
    ELSE /\ pins' \in StoreOutcomes(pins, pn[1],
                          NewPinValue(pn[1], v.mode, v.na, pn[2]),
                          \E u \in Threads \ {t} : StoresPins(u))
         /\ thr' = [thr EXCEPT ![t].pc = "stat", ![t].pn = pn,
                               ![t].pin = NewPinValue(pn[1], v.mode, v.na, pn[2])]

\* One turn of "for _, c := range n.Children": the properties of c are
\* ranged over, NewPin builds the Pin and stores it in the map pins holds
\* now.  After the last turn the range over aliases goes on.
ChildStep(t) ==
    /\ Alive /\ thr[t].pc = "child"
    /\ IF thr[t].idx > Len(thr[t].visits)
       THEN /\ thr' = [thr EXCEPT ![t].pc = "alias"]
            /\ UNCHANGED pins
       ELSE ChildStore(t, thr[t].visits[thr[t].idx], PnAt(t))
    /\ UNCHANGED <<tree, prefix, disk, aliases, writes, exportCalls, log,
                   discoveries, walk, last, ncalls>>

\* "if p.IsExported() { return }": os.Stat of the value file
StatStep(t) ==
    /\ Alive /\ thr[t].pc = "stat"
    /\ thr' = IF IsExported(thr[t].pin, fs)
              THEN [thr EXCEPT ![t].pc = "child", ![t].idx = @ + 1]
              ELSE [thr EXCEPT ![t].pc = "open"]
    /\ UNCHANGED <<tree, prefix, disk, aliases, pins, writes, exportCalls, log,
                   discoveries, walk, last, ncalls>>

\* Pin.Export is entered: os.OpenFile of the export file
OpenStep(t) ==
    /\ Alive /\ thr[t].pc = "open"
    /\ SetWorld(ExportBegin(World))
    /\ thr' = [thr EXCEPT ![t].pc = IF fs.exportFile THEN "write" ELSE "print"]
    /\ UNCHANGED <<tree, prefix, aliases, discoveries, walk, last, ncalls>>

\* "fmt.Fprintf(f, "%d\n", p.Gpio)"; NewPin returns nil
WriteStep(t) ==
    /\ Alive /\ thr[t].pc = "write"
    /\ SetWorld(ExportWrite(FormatInt(thr[t].pin.Gpio), World).w)
    /\ thr' = [thr EXCEPT ![t].pc = "child", ![t].idx = @ + 1]
    /\ UNCHANGED <<tree, prefix, aliases, discoveries, walk, last, ncalls>>

\* NewPin returned the open error: "fmt.Printf("Error setting ...")"
PrintStep(t) ==
    /\ Alive /\ thr[t].pc = "print"
    /\ log' = log + 1
    /\ thr' = [thr EXCEPT ![t].pc = "child", ![t].idx = @ + 1]
    /\ UNCHANGED <<tree, prefix, disk, aliases, pins, writes, exportCalls,
                   discoveries, walk, last, ncalls>>

\* gpioInit() has returned: the caller reads pins into its result
ReadStep(t) ==
    /\ Alive /\ thr[t].pc = "read"
    /\ thr' = [thr EXCEPT ![t].pc = "done",
                          ![t].result = LookupResult(thr[t].op, thr[t].name, pins)]
    /\ UNCHANGED <<tree, prefix, disk, aliases, pins, writes, exportCalls, log,
                   discoveries, walk, last, ncalls>>

\* Goroutine t is about to store into a map that another goroutine is about
\* to store into, range over or read: the runtime stops the process.
Fatal(t) ==
    /\ Alive
    /\ \/ /\ StoresAliases(t)
          /\ \E u \in Threads \ {t} : StoresAliases(u) \/ RangesAliases(u)
       \/ /\ StoresPins(t)
          /\ \E u \in Threads \ {t} : StoresPins(u) \/ ReadsPins(u)
    /\ thr' = [u \in Threads |-> [thr[u] EXCEPT !.pc = "fatal"]]
    /\ UNCHANGED <<tree, prefix, disk, aliases, pins, writes, exportCalls, log,
                   discoveries, walk, last, ncalls>>

NextConc ==
    \E t \in Threads :
       \/ Call(t)
       \/ Check(t)
       \/ MakeAliases(t)
       \/ MakePins(t)
       \/ TreeStep(t)
       \/ AliasStep(t)
       \/ WalkStep(t)
       \/ RangeStep(t)
       \/ ChildStep(t)
       \/ StatStep(t)
       \/ OpenStep(t)
       \/ WriteStep(t)
       \/ PrintStep(t)
       \/ ReadStep(t)
       \/ Fatal(t)

\* The runs start without a tree, or with one controller: one that one or
\* two aliases name and that has the plain input pin, or one that one alias
\* names and that has that pin next to the child without gpio-pin-desc; on
\* a working sysfs or on none.
InitConc ==
    /\ Init
    /\ tree \in {NoTree,
                  [nil |-> FALSE, aliasProps |-> OneAlias,
                   controllers |-> {NodeG1({ChildLed})}],
                  [nil |-> FALSE, aliasProps |-> TwoAliasesOneNode,
                   controllers |-> {NodeG1({ChildLed})}],
                  [nil |-> FALSE, aliasProps |-> OneAlias,
                   controllers |-> {NodeG1({ChildLed, ChildNoDesc})}]}
    /\ fs.exportFile = fs.kernelOK

SpecConc == InitConc /\ [][NextConc]_vars

\* ------------------------------------------------------------------------
\* Properties of the single-threaded package (Spec)
\* ------------------------------------------------------------------------

LookupOps == {"FindPin", "NumPins", "AllPins"}

\* this step is a call of FindPin, NumPins or AllPins
LookupStep == ncalls' = ncalls + 1 /\ last'.op \in LookupOps

\* C1: discovery runs on the first of the FindPin, NumPins and AllPins calls
\* only.  A later call leaves the registry and the alias map as they are,
\* exports nothing and prints nothing; with no tree the first call leaves an
\* empty registry, exports nothing and does not fail.
C1_DiscoveryOnce ==
    [][LookupStep =>
         /\ discoveries' <= 1
         /\ aliases.nil => last'.ran /\ discoveries' = discoveries + 1
         /\ ~aliases.nil =>
               /\ ~last'.ran
               /\ discoveries' = discoveries
               /\ pins' = pins /\ aliases' = aliases
               /\ exportCalls' = exportCalls /\ writes' = writes
               /\ log' = log /\ fs' = fs
         /\ tree.nil =>
               /\ ~last'.panic
               /\ aliases.nil => pins' = MakeMap /\ exportCalls' = exportCalls]_vars

\* a second lookup call, made on a registry the first one filled
C1_Witness ==
    /\ ncalls = 2 /\ last.op \in LookupOps /\ ~last.ran
    /\ discoveries = 1 /\ DOMAIN pins.m # {} /\ exportCalls > 0

\* the index string without its sign
Body(s) == IF Len(s) >= 1 /\ (s[1] = "-" \/ s[1] = "+") THEN Tail(s) ELSE s

\* whether s is an optional sign followed by one or more decimal digits
IsDecimal(s) ==
    Len(Body(s)) >= 1 /\ \A i \in 1..Len(Body(s)) : IsDigit(Body(s)[i])

\* the digits that d starts with
RECURSIVE DigitRun(_)
DigitRun(d) ==
    IF Len(d) >= 1 /\ IsDigit(d[1]) THEN <<d[1]>> \o DigitRun(Tail(d)) ELSE <<>>

\* a run of digits without its leading zeros
RECURSIVE StripZeros(_)
StripZeros(d) == IF Len(d) > 1 /\ d[1] = "0" THEN StripZeros(Tail(d)) ELSE d

\* the decimal string s as %d prints the integer it denotes
Canon(s) ==
    IF s[1] = "-" /\ StripZeros(Body(s)) # <<"0">>
    THEN <<"-">> \o StripZeros(Body(s))
    ELSE StripZeros(Body(s))

\* digit strings without leading zeros, compared as numbers
DigitsGreater(a, b) ==
    \/ Len(a) > Len(b)
    \/ /\ Len(a) = Len(b)
       /\ \E i \in 1..Len(a) :
             /\ DigitVal(a[i]) > DigitVal(b[i])
             /\ \A j \in 1..(i - 1) : a[j] = b[j]

\* 2^63 - 1, 2^63 and 2^64 - 1 in decimal
MaxIntDigits ==
    <<"9", "2", "2", "3", "3", "7", "2", "0", "3", "6", "8", "5", "4", "7", "7",
      "5", "8", "0", "7">>
MinIntDigits ==
    <<"9", "2", "2", "3", "3", "7", "2", "0", "3", "6", "8", "5", "4", "7", "7",
      "5", "8", "0", "8">>
MaxUintDigits ==
    <<"1", "8", "4", "4", "6", "7", "4", "4", "0", "7", "3", "7", "0", "9", "5",
      "5", "1", "6", "1", "5">>

\* whether the decimal string s denotes an integer outside the int range
OutOfRange(s) ==
    DigitsGreater(StripZeros(Body(s)),
                  IF s[1] = "-" THEN MinIntDigits ELSE MaxIntDigits)

\* whether the digits that follow the sign of s pass 2^64 - 1, whatever
\* comes after them
DigitsPassUint(s) ==
    /\ DigitRun(Body(s)) # <<>>
    /\ DigitsGreater(StripZeros(DigitRun(Body(s))), MaxUintDigits)

\* what the index string added to the bank base in the registered pin
IndexPart == Add(pins.m[last.name].Gpio, Neg(BankBase(last.bank)))

\* C2, as the specification has it: the registered Gpio is the bank base (0 for an unknown
\* bank) plus the integer of the index, and plus 0 for an index that is no
\* decimal integer an int holds; NewPin surfaces no parse error (it returns
\* an error only when the export file cannot be opened).
C2_UnparsedIndexIsZero ==
    (last.op = "NewPin" /\ ~last.panic) =>
       /\ (IsDecimal(last.index) /\ ~OutOfRange(last.index)) =>
             FormatInt(IndexPart) = Canon(last.index)
       /\ ~(IsDecimal(last.index) /\ ~OutOfRange(last.index)) => IndexPart = Zero
       /\ last.err => ~fs.exportFile

\* C2, as the code has it: the registered Gpio is the bank base (0 for an unknown
\* bank) plus, wrapping, the part of the index: the integer it denotes when
\* it is an optionally signed run of digits within the int range; the
\* largest int (the smallest after a "-") when it denotes an integer
\* outside that range or its leading digits pass 2^64 - 1; and 0 for every
\* other string.  NewPin returns an error only when the export file cannot
\* be opened.
C2_GpioIsBasePlusIndex ==
    (last.op = "NewPin" /\ ~last.panic) =>
       /\ (IsDecimal(last.index) /\ ~OutOfRange(last.index)) =>
             FormatInt(IndexPart) = Canon(last.index)
       /\ ((IsDecimal(last.index) /\ OutOfRange(last.index))
            \/ DigitsPassUint(last.index)) =>
             IndexPart = IF last.index[1] = "-" THEN MinInt ELSE MaxInt
       /\ (~IsDecimal(last.index) /\ ~DigitsPassUint(last.index)) =>
             IndexPart = Zero
       /\ last.err => ~fs.exportFile

\* a pin registered from a known bank and an index above the int range
C2_Witness ==
    /\ last.op = "NewPin" /\ ~last.panic
    /\ last.bank = GpioBank("1")
    /\ IsDecimal(last.index) /\ OutOfRange(last.index) /\ last.index[1] # "-"
    /\ pins.m[last.name].Gpio = Add(FromNat(32), MaxInt)

\* C3: Pin.Export returns an error exactly when the export file could not be
\* opened or did not take the write of the pin number.
C3_ExportReportsFailure ==
    last.op = "Export" => (last.err <=> ~(last.opened /\ last.wrote))

FreshWorld(f) ==
    [pins |-> NilMap, fs |-> f, writes |-> <<>>, exportCalls |-> 0, log |-> 0]

\* C4: the names discovery registers do not depend on whether exports fail:
\* the walk just taken leaves the same names on every pseudo-filesystem.
C4_BestEffortNames ==
    last.ran =>
      \A f \in FsInits :
         DOMAIN GpioInit(NilMap, tree, walk, FreshWorld(f)).w.pins.m = DOMAIN pins.m

\* a discovery in which an export failed and two names were registered
C4_Witness ==
    last.ran /\ ~last.panic /\ log > 0 /\ Cardinality(DOMAIN pins.m) >= 2

\* C5: every Pin in the registry has Default "in", "low" or "high".
C5_DefaultIsAMode ==
    \A n \in DOMAIN pins.m : pins.m[n].Default \in {StrIn, StrLow, StrHigh}

\* C6: a NewPin of a name the registry holds leaves the same names, the entry
\* of that name carrying the new Gpio and Default, every other entry as it was.
C6_LastRegistrationWins ==
    [][(ncalls' = ncalls + 1 /\ last'.op = "NewPin" /\ ~pins.nil
        /\ last'.name \in DOMAIN pins.m) =>
         /\ DOMAIN pins'.m = DOMAIN pins.m
         /\ pins'.m[last'.name].Name = last'.name
         /\ pins'.m[last'.name].Gpio =
               Add(BankBase(last'.bank), Atoi(last'.index).val)
         /\ pins'.m[last'.name].Default = PinMode(last'.mode)
         /\ \A n \in DOMAIN pins.m \ {last'.name} : pins'.m[n] = pins.m[n]]_vars

\* a NewPin that replaced an entry by a different one, next to another entry
C6_Witness ==
    /\ last.op = "NewPin" /\ last.had /\ last.old # pins.m[last.name]
    /\ Cardinality(DOMAIN pins.m) >= 2

\* the names and index strings of the children the walk wk visits
WalkVisits(wk) == UNION {{wk[i].visits[j] : j \in 1..Len(wk[i].visits)} : i \in 1..Len(wk)}

\* C7: goroutines that call FindPin, NumPins or AllPins at the same time on an
\* unmade registry have it made once, and each call returns what it would
\* return on a registry a whole discovery filled.
C7_OneCompleteRegistry ==
    /\ discoveries <= 1
    /\ \A t \in Threads :
          thr[t].pc = "done" =>
            \E wk \in WalkChoices(NilMap, tree) :
               thr[t].result =
                 LookupResult(thr[t].op, thr[t].name,
                              GpioInit(NilMap, tree, wk, FreshWorld(fs)).w.pins)

\* C8: discovery registers, for every child it visits under a matching
\* alias, the name before the "@" of that child's own node name, numbered
\* with the bank base of an alias it was visited under plus the integer
\* after the "@" (children named name@index throughout).
C8_ChildRegisteredByOwnName ==
    (last.ran /\ \A v \in WalkVisits(walk) : Len(Split(v.cname, "@")) >= 2) =>
       /\ ~last.panic
       /\ \A v \in WalkVisits(walk) :
             /\ Split(v.cname, "@")[1] \in DOMAIN pins.m
             /\ \E u \in WalkVisits(walk) :
                   /\ Split(u.cname, "@")[1] = Split(v.cname, "@")[1]
                   /\ pins.m[Split(v.cname, "@")[1]].Gpio =
                         Add(BankBase(u.na), Atoi(Split(u.cname, "@")[2]).val)

\* C9: a FindPin(name) that follows a NewPin(name, ...) finds the pin that
\* NewPin built, also when NewPin was the first call of the run.
C9_ExplicitPinFound ==
    [][(ncalls' = ncalls + 1 /\ last.op = "NewPin" /\ last'.op = "FindPin"
        /\ last'.name = last.name) =>
         /\ ~last.panic
         /\ last'.found
         /\ last'.pin = NewPinValue(last.name, last.mode, last.bank, last.index)]_vars

\* every child of every controller carries gpio-pin-desc and is named
\* name@index
ChildrenDescribed ==
    \A n \in tree.controllers : \A c \in n.Children :
       StrGpioPinDesc \in c.Properties /\ Len(Split(c.Name, "@")) >= 2

\* C10: the registry discovery leaves (each name's Gpio and Default) is the
\* same for every order the walk can take, stated for the trees whose
\* children are all described, so that only the orders differ.
C10_Deterministic ==
    (last.ran /\ ChildrenDescribed) =>
      \A wk \in WalkChoices(NilMap, tree) :
         GpioInit(NilMap, tree, wk, FreshWorld(fs)).w.pins = pins
====
